---- MODULE Spec2Model ----
(***************************************************************************)
(* GenAIL runtime (genai_lang/runtime.py) executing statement sequences    *)
(* produced by the parser (genai_lang/parser.py).                          *)
(*                                                                         *)
(* Python values are tagged records.  A Python list is an object with      *)
(* identity: a list value carries `ref`, which is 0 when the record itself *)
(* holds the object's items and i > 0 when the object is the list payload  *)
(* of statement i (Set stores the payload object itself, not a copy).      *)
(* A string with {placeholders} is a sequence of segments, literal text or *)
(* a field name, which is what str.format sees.                            *)
(***************************************************************************)
EXTENDS Integers, Sequences, FiniteSets, TLC

\* ---- bounds ----
MaxLen == 3
MaxRuns == 2

\* ---- Python values ----
StrV(s) == [t |-> "str", s |-> s]
IntV(n) == [t |-> "int", n |-> n]
FloatV(k) == [t |-> "float", tenths |-> k]
BoolV(b) == [t |-> "bool", b |-> b]
NoneV == [t |-> "none"]
ListV(items) == [t |-> "list", ref |-> 0, items |-> items]
DictV(keys, vals) == [t |-> "dict", keys |-> keys, vals |-> vals]
Ref(i) == [t |-> "list", ref |-> i, items |-> <<>>]

Msg(role, content) == [role |-> role, content |-> content]
Lit(s) == [k |-> "lit", s |-> s]
Field(name) == [k |-> "var", s |-> name]
\* a str the parser took from a template, prompt or message line
Text(segs) == [t |-> "text", segs |-> segs]

RESERVED_VARIABLES == {"prompt", "messages"}
DefaultModel == "default-model"

VARIABLES
    stmts,      \* the statement sequence handed to run (the objects themselves)
    parsed,     \* the payloads as parse_script produced them
    provider,   \* Runtime.provider
    runNo,      \* which invocation of run this is, each on a fresh Runtime
    pc,         \* position of run's for loop
    status,     \* "running", "done" (run returned) or "failed" (run raised)
    err,        \* the error run raised, "none" while there is none
    variables,  \* Runtime.variables
    model,      \* Runtime.model
    output,     \* Runtime.output
    calls,      \* provider and tool invocations made by this run, in order
    results,    \* what the earlier runs left behind
    lines,      \* parse_script: source.splitlines(), each line a sequence of characters
    index,      \* parse_script: position of the scan, 0-based as in the code
    statements, \* parse_script: the statements recognized so far
    outcome     \* parse_script: "parsing", "returned" or "raised", and the error raised

vars == <<stmts, parsed, provider, runNo, pc, status, err, variables, model,
          output, calls, results, lines, index, statements, outcome>>
env == <<variables, model, output>>
\* the state of a parse_script call
parse == <<lines, index, statements, outcome>>
\* the state of the runs
runtime == <<stmts, parsed, provider, runNo, pc, status, err, variables, model,
             output, calls, results>>

\* ---- str() ----
Digit == <<"0", "1", "2", "3", "4", "5", "6", "7", "8", "9">>

RECURSIVE NatStr(_)
NatStr(n) ==
    IF n < 10 THEN Digit[n + 1] ELSE NatStr(n \div 10) \o Digit[(n % 10) + 1]

IntStr(n) == IF n < 0 THEN "-" \o NatStr(-n) ELSE NatStr(n)

FloatStr(k) ==
    IF k < 0 THEN "-" \o NatStr((-k) \div 10) \o "." \o Digit[((-k) % 10) + 1]
    ELSE NatStr(k \div 10) \o "." \o Digit[(k % 10) + 1]

\* repr of a str without quotes, backslashes or control characters
StrRepr(s) == "'" \o s \o "'"

\* repr of a message dict, keys in insertion order role, content
MsgRepr(m) ==
    "{"
    \o (IF "role" \in DOMAIN m THEN "'role': " \o StrRepr(m.role) ELSE "")
    \o (IF DOMAIN m = {"role", "content"} THEN ", " ELSE "")
    \o (IF "content" \in DOMAIN m THEN "'content': " \o StrRepr(m.content) ELSE "")
    \o "}"

RECURSIVE JoinWith(_, _)
JoinWith(seq, sep) ==
    IF seq = <<>> THEN ""
    ELSE IF Len(seq) = 1 THEN seq[1]
    ELSE seq[1] \o sep \o JoinWith(Tail(seq), sep)

\* The items of a list object as the given statement sequence holds them.
ItemsIn(ss, v) == IF v.ref = 0 THEN v.items ELSE ss[v.ref].data.value.items

Items(v) == ItemsIn(stmts, v)

StrIn(ss, v) ==
    CASE v.t = "str" -> v.s
      [] v.t = "int" -> IntStr(v.n)
      [] v.t = "float" -> FloatStr(v.tenths)
      [] v.t = "bool" -> (IF v.b THEN "True" ELSE "False")
      [] v.t = "none" -> "None"
      [] v.t = "list" ->
            "[" \o JoinWith([i \in 1..Len(ItemsIn(ss, v)) |-> MsgRepr(ItemsIn(ss, v)[i])], ", ") \o "]"
      [] v.t = "dict" ->
            "{" \o JoinWith([i \in 1..Len(v.keys) |->
                               StrRepr(v.keys[i]) \o ": " \o StrRepr(v.vals[i])], ", ") \o "}"

Str(v) == StrIn(stmts, v)

\* bool(v)
Truthy(v) ==
    CASE v.t = "str" -> v.s # ""
      [] v.t = "int" -> v.n # 0
      [] v.t = "float" -> v.tenths # 0
      [] v.t = "bool" -> v.b
      [] v.t = "none" -> FALSE
      [] v.t = "list" -> Items(v) # <<>>
      [] v.t = "dict" -> v.keys # <<>>

isinstance_list(v) == v.t = "list"

Bound(name) == name \in DOMAIN variables

\* variables[name] = value
Store(name, value) ==
    [n \in (DOMAIN variables) \cup {name} |-> IF n = name THEN value ELSE variables[n]]

\* ---- Runtime helpers ----
Get(m, key, default) == IF key \in DOMAIN m THEN m[key] ELSE default

format_messages(messages) ==
    JoinWith([i \in 1..Len(messages) |->
                Get(messages[i], "role", "user") \o ": " \o Get(messages[i], "content", "")],
             "\n")

\* A _format_string that substitutes nothing for a missing field.
_format_string_blank(template) ==
    LET segs == template.segs
    IN  [ok |-> TRUE,
         s |-> JoinWith([i \in 1..Len(segs) |->
                           IF segs[i].k = "lit" THEN segs[i].s
                           ELSE IF Bound(segs[i].s) THEN Str(variables[segs[i].s])
                           ELSE ""], "")]

\* template.format(**self.variables): the first field that is not a key raises
\* KeyError, which becomes ValueError("Unknown variable: <name>").
_format_string(template) ==
    LET segs == template.segs
        missing == {i \in 1..Len(segs) : segs[i].k = "var" /\ ~Bound(segs[i].s)}
        first == CHOOSE i \in missing : \A j \in missing : i <= j
    IN  IF missing # {}
        THEN [ok |-> FALSE, s |-> segs[first].s]
        ELSE [ok |-> TRUE,
              s |-> JoinWith([i \in 1..Len(segs) |->
                                IF segs[i].k = "lit" THEN segs[i].s
                                ELSE Str(variables[segs[i].s])], "")]

\* float(s) for the strings _parse_value leaves as str: it accepts more than
\* the parser's -?digits.digits, "nan" among them
FloatOfStr ==
    ("nan" :> [ok |-> TRUE, n |-> 0, nan |-> TRUE])
    @@ ("1e1" :> [ok |-> TRUE, n |-> 100, nan |-> FALSE])

\* float(x) in tenths, nan apart; TypeError and ValueError are both caught by
\* the caller.
to_float(v) ==
    CASE v.t = "float" -> [ok |-> TRUE, n |-> v.tenths, nan |-> FALSE]
      [] v.t = "int" -> [ok |-> TRUE, n |-> v.n * 10, nan |-> FALSE]
      [] v.t = "bool" -> [ok |-> TRUE, n |-> IF v.b THEN 10 ELSE 0, nan |-> FALSE]
      [] v.t = "str" /\ v.s \in DOMAIN FloatOfStr -> FloatOfStr[v.s]
      [] OTHER -> [ok |-> FALSE, n |-> 0, nan |-> FALSE]

\* int(x): truncation toward zero for a float; int("nan") and int("1e1") are
\* ValueErrors like int("oops")
to_int(v) ==
    CASE v.t = "int" -> [ok |-> TRUE, n |-> v.n]
      [] v.t = "float" ->
            [ok |-> TRUE,
             n |-> IF v.tenths < 0 THEN -((-v.tenths) \div 10) ELSE v.tenths \div 10]
      [] v.t = "bool" -> [ok |-> TRUE, n |-> IF v.b THEN 1 ELSE 0]
      [] OTHER -> [ok |-> FALSE, n |-> 0]

\* json.loads on the texts the providers below can return and the scripts hold
JsonDecoded ==
    ("{\"name\": \"Ada\"}" :> DictV(<<"name">>, <<"Ada">>))
    @@ ("[]" :> ListV(<<>>))
    @@ ("12" :> IntV(12))
    @@ ("[{\"role\": \"user\", \"content\": \"a\"}]" :> ListV(<<Msg("user", "a")>>))

json_loads(text) ==
    IF text \in DOMAIN JsonDecoded
    THEN [ok |-> TRUE, value |-> JsonDecoded[text]]
    ELSE [ok |-> FALSE, value |-> NoneV]

\* ---- providers (caller supplied) ----
\* "chat": has both operations; generate returns a JSON document and
\*         generate_messages answers with the model and the last message
\*         (the providers of tests/test_runtime.py)
\* "flat": has generate only, echoing model and prompt (tests/test_examples.py)
Providers == {"chat", "flat"}

hasattr_generate_messages(p) == p = "chat"

provider_generate(p, m, prompt, temperature, max_tokens) ==
    IF p = "chat" THEN "{\"name\": \"Ada\"}" ELSE "[" \o m \o "] " \o prompt

provider_generate_messages(p, m, messages, temperature, max_tokens) ==
    m \o ":" \o messages[Len(messages)].content

\* ---- tools (caller supplied) ----
\* echo(text) returns its argument; boom raises.
Tools == {"echo", "boom"}

\* A registry whose raising tool has its error swallowed.
tool_call_swallowing(tool, args) ==
    IF tool = "echo" /\ DOMAIN args = {"text"}
    THEN [ok |-> TRUE, value |-> args.text, err |-> "none"]
    ELSE [ok |-> TRUE, value |-> NoneV, err |-> "none"]

tool_call(tool, args) ==
    IF tool = "echo" /\ DOMAIN args = {"text"}
    THEN [ok |-> TRUE, value |-> args.text, err |-> "none"]
    ELSE IF tool = "echo"
    THEN [ok |-> FALSE, value |-> NoneV, err |-> "TypeError"]
    ELSE [ok |-> FALSE, value |-> NoneV, err |-> "tool raised"]

\* ---- statements, as parse_script builds them ----
Statement(kind, data) == [kind |-> kind, data |-> data]

StmtModel(name) == Statement("model", [name |-> name])
StmtSet(name, value) == Statement("set", [name |-> name, value |-> value])
StmtTemplate(name, value) == Statement("template", [name |-> name, value |-> value])
StmtPrompt(value) == Statement("prompt", [value |-> value])
StmtMessage(role, value) == Statement("message", [role |-> role, value |-> value])
StmtGenerate(target, prompt, temperature, max_tokens, format, schema) ==
    Statement("generate",
              [target |-> target, prompt |-> prompt, temperature |-> temperature,
               max_tokens |-> max_tokens, format |-> format, schema |-> schema])
StmtCall(tool, args, target) ==
    Statement("call", [tool |-> tool, args |-> args, target |-> target])
StmtPrint(value) == Statement("print", [value |-> value])

\* _parse_generate_args defaults
DefaultTemperature == FloatV(7)
DefaultMaxTokens == IntV(128)

StmtGenerateDefault(target, prompt) ==
    StmtGenerate(target, prompt, DefaultTemperature, DefaultMaxTokens, NoneV, NoneV)

\* ---- scripts ----
\* The statements the scripts are drawn from.  Each pool holds every kind of
\* statement, the ones that can fail next to the ones that cannot.

\* reserved names: what Set and Template may write
PoolReserved ==
    { StmtModel("demo"),
      StmtSet("topic", StrV("agents")),
      StmtSet("prompt", StrV("override")),
      StmtSet("prompt", ListV(<<>>)),
      StmtSet("messages", StrV("x")),
      StmtSet("messages", ListV(<<Msg("user", "a")>>)),
      StmtSet("messages", ListV(<<>>)),
      StmtTemplate("g", Text(<<Lit("Hello "), Field("topic"), Lit("!")>>)),
      StmtTemplate("prompt", Text(<<Lit("Hi")>>)),
      StmtTemplate("messages", Text(<<Field("topic")>>)),
      StmtPrompt(Text(<<Lit("Return JSON.")>>)),
      StmtMessage("user", Text(<<Lit("Hi there.")>>)),
      StmtGenerateDefault("out", "prompt"),
      StmtCall("echo", [text |-> StrV("hi")], "x"),
      StmtPrint(StrV("messages")) }

\* substitution, message lists and the ways a statement fails
PoolText ==
    { StmtModel("demo"),
      StmtSet("topic", StrV("agents")),
      StmtSet("topic", IntV(5)),
      StmtSet("messages", ListV(<<Msg("user", "a")>>)),
      StmtTemplate("g", Text(<<Lit("Hello "), Field("topic"), Lit("!")>>)),
      StmtTemplate("messages", Text(<<Field("topic")>>)),
      StmtPrompt(Text(<<Lit("Write about "), Field("topic"), Lit(".")>>)),
      StmtPrompt(Text(<<Lit("Return JSON.")>>)),
      StmtMessage("system", Text(<<Lit("You are concise.")>>)),
      StmtMessage("user", Text(<<Lit("Hi there.")>>)),
      StmtMessage("user", Text(<<Lit("Hi "), Field("topic")>>)),
      StmtGenerateDefault("out", "messages"),
      StmtGenerateDefault("messages", "prompt"),
      StmtGenerate("out", "prompt", DefaultTemperature, DefaultMaxTokens, StrV("json"), NoneV),
      StmtCall("echo", [text |-> StrV("hi")], "x"),
      StmtCall("boom", [text |-> StrV("hi")], "x"),
      StmtPrint(StrV("out")) }

\* generate options, tool calls and printing
PoolCalls ==
    { StmtGenerateDefault("out", "prompt"),
      StmtGenerateDefault("prompt", "messages"),
      StmtGenerate("out", "prompt", DefaultTemperature, DefaultMaxTokens, NoneV, StrV("s")),
      StmtGenerate("out", "prompt", DefaultTemperature, DefaultMaxTokens, NoneV, IntV(0)),
      StmtGenerate("out", "prompt", IntV(-1), DefaultMaxTokens, NoneV, NoneV),
      StmtGenerate("out", "prompt", DefaultTemperature, IntV(0), NoneV, NoneV),
      StmtGenerate("out", "prompt", StrV("hot"), StrV("oops"), NoneV, NoneV),
      StmtCall("echo", [text |-> StrV("hi")], "messages"),
      StmtCall("nope", [text |-> StrV("hi")], "x"),
      StmtPrint(IntV(5)) }

Pool == PoolReserved \cup PoolText \cup PoolCalls

\* printing: literals of every type, names bound and unbound
PoolPrint ==
    { StmtModel("demo"),
      StmtSet("x", StrV("a")),
      StmtSet("x", IntV(5)),
      StmtSet("messages", ListV(<<Msg("user", "a")>>)),
      StmtTemplate("g", Text(<<Lit("Hello "), Field("x")>>)),
      StmtPrompt(Text(<<Lit("Hi")>>)),
      StmtMessage("user", Text(<<Lit("Hi there.")>>)),
      StmtGenerateDefault("out", "prompt"),
      StmtCall("echo", [text |-> StrV("hi")], "x"),
      StmtPrint(StrV("x")),
      StmtPrint(StrV("messages")),
      StmtPrint(StrV("hello world")),
      StmtPrint(IntV(5)),
      StmtPrint(FloatV(15)),
      StmtPrint(BoolV(TRUE)) }

\* tool calls: registered, raising and unregistered tools
PoolTools ==
    { StmtModel("demo"),
      StmtSet("x", StrV("a")),
      StmtTemplate("g", Text(<<Lit("Hello "), Field("x")>>)),
      StmtPrompt(Text(<<Lit("Hi")>>)),
      StmtMessage("user", Text(<<Lit("Hi there.")>>)),
      StmtGenerateDefault("out", "prompt"),
      StmtCall("echo", [text |-> StrV("hi")], "x"),
      StmtCall("echo", [text |-> IntV(12)], "y"),
      StmtCall("boom", [text |-> StrV("hi")], "x"),
      StmtCall("nope", [text |-> StrV("hi")], "x"),
      StmtPrint(StrV("x")) }

\* generate: every shape of prompt variable and every kind of option value
PoolGenerate ==
    { StmtModel("demo"),
      StmtSet("messages", ListV(<<>>)),
      StmtSet("topic", IntV(5)),
      StmtTemplate("g", Text(<<Lit("Hello "), Field("topic")>>)),
      StmtPrompt(Text(<<Lit("Return JSON.")>>)),
      StmtMessage("user", Text(<<Lit("Hi there.")>>)),
      StmtGenerateDefault("out", "prompt"),
      StmtGenerateDefault("out", "messages"),
      StmtGenerateDefault("out", "topic"),
      StmtGenerate("out", "prompt", DefaultTemperature, DefaultMaxTokens, StrV("json"), NoneV),
      StmtGenerate("out", "prompt", StrV("nan"), DefaultMaxTokens, NoneV, NoneV),
      StmtGenerate("out", "prompt", StrV("1e1"), FloatV(29), NoneV, NoneV),
      StmtGenerate("out", "prompt", IntV(-1), DefaultMaxTokens, NoneV, NoneV),
      StmtGenerate("out", "prompt", DefaultTemperature, IntV(0), NoneV, NoneV),
      StmtGenerate("out", "prompt", StrV("hot"), StrV("oops"), NoneV, NoneV),
      StmtCall("echo", [text |-> StrV("hi")], "x"),
      StmtPrint(StrV("out")) }

\* the model in effect: two model names around generate statements
PoolModel ==
    { StmtModel("demo"),
      StmtModel("other"),
      StmtSet("topic", StrV("agents")),
      StmtTemplate("g", Text(<<Lit("Hello "), Field("topic")>>)),
      StmtPrompt(Text(<<Lit("Hi")>>)),
      StmtMessage("user", Text(<<Lit("Hi there.")>>)),
      StmtGenerateDefault("out", "messages"),
      StmtCall("echo", [text |-> StrV("hi")], "x"),
      StmtPrint(StrV("out")) }

\* no parse_script call is under way: the statements are handed over as they are
NotParsing == [status |-> "returned", error |-> [kind |-> "none", line |-> 0, msg |-> ""]]

\* Runtime() about to run a script of at most MaxLen statements of the pool
InitWith(pool) ==
    /\ \E n \in 1..MaxLen : stmts \in [1..n -> pool]
    /\ parsed = stmts
    /\ provider \in Providers
    /\ runNo = 1
    /\ pc = 1
    /\ status = "running"
    /\ err = "none"
    /\ variables = <<>>
    /\ model = DefaultModel
    /\ output = <<>>
    /\ calls = <<>>
    /\ results = <<>>
    /\ lines = <<>>
    /\ index = 0
    /\ statements = <<>>
    /\ outcome = NotParsing

Init == InitWith(Pool)

InitReserved == InitWith(PoolReserved)

InitText == InitWith(PoolText)

InitPrint == InitWith(PoolPrint)

InitTools == InitWith(PoolTools)

InitGenerate == InitWith(PoolGenerate)

\* Runtime() about to run a script of the model pool, one statement longer so
\* that two Model statements can stand before a Generate and its messages
InitModel ==
    /\ \E n \in 1..(MaxLen + 1) : stmts \in [1..n -> PoolModel]
    /\ parsed = stmts
    /\ provider \in Providers
    /\ runNo = 1
    /\ pc = 1
    /\ status = "running"
    /\ err = "none"
    /\ variables = <<>>
    /\ model = DefaultModel
    /\ output = <<>>
    /\ calls = <<>>
    /\ results = <<>>
    /\ lines = <<>>
    /\ index = 0
    /\ statements = <<>>
    /\ outcome = NotParsing

\* run's loop is about to hand statement pc of the given kind to its handler
At(kind) ==
    /\ status = "running"
    /\ pc <= Len(stmts)
    /\ stmts[pc].kind = kind

data == stmts[pc].data

\* The handler returned: the loop moves on.
Continue ==
    /\ pc' = pc + 1
    /\ UNCHANGED <<status, err>>

\* A run that swallows the error and moves on to the next statement.
RaiseAndContinue(e) ==
    /\ status' = status
    /\ err' = e
    /\ pc' = pc + 1

\* The handler raised: nothing in run catches it.
Raise(e) ==
    /\ status' = "failed"
    /\ err' = e
    /\ pc' = pc

\* An _assert_assignable that guards `prompt` only.
_assert_assignable_prompt_only(name) == name # "prompt"

_assert_assignable(name) == name \notin RESERVED_VARIABLES

\* A seeding rule that lets a list through only while `messages` is unbound.
seeds_messages_once(name, value) ==
    name = "messages" /\ isinstance_list(value) /\ ~Bound("messages")

\* the one assignment to a reserved name that _handle_set lets through
seeds_messages(name, value) == name = "messages" /\ isinstance_list(value)

\* An insert at the front instead of an append.
list_prepend(items, item) == <<item>> \o items

\* list.append
list_append(items, item) == Append(items, item)

\* A _handle_model that sets the model only while it is still the default.
_handle_model_once ==
    /\ At("model")
    /\ model' = IF model = DefaultModel THEN data.name ELSE model
    /\ Continue
    /\ UNCHANGED <<stmts, parsed, provider, parse, runNo, variables, output, calls, results>>

_handle_model ==
    /\ At("model")
    /\ model' = data.name
    /\ Continue
    /\ UNCHANGED <<stmts, parsed, provider, parse, runNo, variables, output, calls, results>>

_handle_set ==
    /\ At("set")
    /\ LET name == data.name
           value == data.value
           stored == IF isinstance_list(value) THEN Ref(pc) ELSE value
       IN  IF name \in RESERVED_VARIABLES
           THEN IF seeds_messages(name, value)
                THEN variables' = Store(name, stored) /\ Continue
                ELSE Raise("reserved") /\ UNCHANGED variables
           ELSE variables' = Store(name, stored) /\ Continue
    /\ UNCHANGED <<stmts, parsed, provider, parse, runNo, model, output, calls, results>>

_handle_template ==
    /\ At("template")
    /\ LET name == data.name
           formatted == _format_string(data.value)
       IN  IF ~_assert_assignable(name)
           THEN Raise("reserved") /\ UNCHANGED variables
           ELSE IF ~formatted.ok
           THEN Raise("Unknown variable: " \o formatted.s) /\ UNCHANGED variables
           ELSE variables' = Store(name, StrV(formatted.s)) /\ Continue
    /\ UNCHANGED <<stmts, parsed, provider, parse, runNo, model, output, calls, results>>

_handle_prompt ==
    /\ At("prompt")
    /\ LET formatted == _format_string(data.value)
       IN  IF ~formatted.ok
           THEN Raise("Unknown variable: " \o formatted.s) /\ UNCHANGED variables
           ELSE variables' = Store("prompt", StrV(formatted.s)) /\ Continue
    /\ UNCHANGED <<stmts, parsed, provider, parse, runNo, model, output, calls, results>>

\* messages.append(message) acts on the list object variables["messages"] is:
\* the statement's own payload when a Set put it there.
_handle_message ==
    /\ At("message")
    /\ LET formatted == _format_string(data.value)
           message == [role |-> data.role, content |-> formatted.s]
       IN  IF ~formatted.ok
           THEN /\ Raise("Unknown variable: " \o formatted.s)
                /\ UNCHANGED <<variables, stmts>>
           ELSE IF ~Bound("messages")
           THEN /\ variables' = Store("messages", ListV(<<message>>))
                /\ Continue
                /\ UNCHANGED stmts
           ELSE IF ~isinstance_list(variables["messages"])
           THEN /\ Raise("messages variable must be a list")
                /\ UNCHANGED <<variables, stmts>>
           ELSE IF variables["messages"].ref = 0
           THEN /\ variables' =
                      Store("messages", ListV(list_append(variables["messages"].items, message)))
                /\ Continue
                /\ UNCHANGED stmts
           ELSE /\ stmts' = [stmts EXCEPT ![variables["messages"].ref].data.value.items =
                                            list_append(@, message)]
                /\ Continue
                /\ UNCHANGED variables
    /\ UNCHANGED <<parsed, provider, parse, runNo, model, output, calls, results>>

_handle_generate ==
    /\ At("generate")
    /\ IF ~Bound(data.prompt)
       THEN Raise("Unknown prompt variable") /\ UNCHANGED <<variables, calls>>
       ELSE
       LET prompt_value == variables[data.prompt]
           is_list == isinstance_list(prompt_value)
           messages == IF is_list THEN Items(prompt_value) ELSE <<>>
           base_text == IF is_list THEN format_messages(messages) ELSE Str(prompt_value)
           temperature == to_float(data.temperature)
           max_tokens == to_int(data.max_tokens)
           schema == data.schema
           format_name == data.format
           prompt_text ==
               IF Truthy(schema)
               THEN base_text \o "\n\nReturn JSON matching this schema:\n" \o Str(schema)
               ELSE IF format_name = StrV("json")
               THEN base_text \o "\n\nReturn valid JSON."
               ELSE base_text
           use_chat == is_list /\ messages # <<>> /\ hasattr_generate_messages(provider)
           generated ==
               IF use_chat
               THEN provider_generate_messages(provider, model, messages,
                                               temperature.n, max_tokens.n)
               ELSE provider_generate(provider, model, prompt_text,
                                      temperature.n, max_tokens.n)
           call ==
               IF use_chat
               THEN [op |-> "generate_messages", model |-> model, messages |-> messages,
                     temperature |-> temperature.n, nan |-> temperature.nan,
                     max_tokens |-> max_tokens.n, returned |-> generated]
               ELSE [op |-> "generate", model |-> model, prompt |-> prompt_text,
                     temperature |-> temperature.n, nan |-> temperature.nan,
                     max_tokens |-> max_tokens.n, returned |-> generated]
           decoded == json_loads(generated)
       IN  IF ~temperature.ok \/ ~max_tokens.ok
           THEN /\ Raise("generate arguments must include numeric temperature and max_tokens")
                /\ UNCHANGED <<variables, calls>>
           ELSE IF ~temperature.nan /\ temperature.n < 0
           THEN /\ Raise("temperature must be non-negative")
                /\ UNCHANGED <<variables, calls>>
           ELSE IF max_tokens.n <= 0
           THEN /\ Raise("max_tokens must be positive")
                /\ UNCHANGED <<variables, calls>>
           ELSE IF format_name = StrV("json") \/ Truthy(schema)
           THEN /\ calls' = Append(calls, call)
                /\ IF ~decoded.ok
                   THEN Raise("Generated output is not valid JSON") /\ UNCHANGED variables
                   ELSE variables' = Store(data.target, decoded.value) /\ Continue
           ELSE /\ calls' = Append(calls, call)
                /\ variables' = Store(data.target, StrV(generated))
                /\ Continue
    /\ UNCHANGED <<stmts, parsed, provider, parse, runNo, model, output, results>>

_handle_call ==
    /\ At("call")
    /\ LET tool_name == data.tool
           result == tool_call(tool_name, data.args)
       IN  IF tool_name \notin Tools
           THEN Raise("Unknown tool") /\ UNCHANGED <<variables, calls>>
           ELSE /\ calls' = Append(calls, [op |-> "tool", tool |-> tool_name,
                                           args |-> data.args])
                /\ IF ~result.ok
                   THEN Raise(result.err) /\ UNCHANGED variables
                   ELSE variables' = Store(data.target, result.value) /\ Continue
    /\ UNCHANGED <<stmts, parsed, provider, parse, runNo, model, output, results>>

\* A print that never looks its value up among the variables.
_handle_print_literal ==
    /\ At("print")
    /\ output' = Append(output, Str(data.value))
    /\ Continue
    /\ UNCHANGED <<stmts, parsed, provider, parse, runNo, variables, model, calls, results>>

\* A print that puts the newest entry first.
_handle_print_front ==
    /\ At("print")
    /\ LET value == IF data.value.t = "str" /\ Bound(data.value.s)
                    THEN variables[data.value.s]
                    ELSE data.value
       IN  output' = <<Str(value)>> \o output
    /\ Continue
    /\ UNCHANGED <<stmts, parsed, provider, parse, runNo, variables, model, calls, results>>

_handle_print ==
    /\ At("print")
    /\ LET value == IF data.value.t = "str" /\ Bound(data.value.s)
                    THEN variables[data.value.s]
                    ELSE data.value
       IN  output' = Append(output, Str(value))
    /\ Continue
    /\ UNCHANGED <<stmts, parsed, provider, parse, runNo, variables, model, calls, results>>

\* run: the loop is exhausted, return self.output
run_return ==
    /\ status = "running"
    /\ pc > Len(stmts)
    /\ status' = "done"
    /\ UNCHANGED <<stmts, parsed, provider, parse, runNo, pc, err, variables, model, output,
                   calls, results>>

\* The caller builds another Runtime() with the same provider and tools and
\* hands run the same statement objects.
run_again ==
    /\ status \in {"done", "failed"}
    /\ runNo < MaxRuns
    /\ results' = Append(results, [output |-> output, variables |-> variables,
                                   status |-> status, err |-> err, calls |-> calls])
    /\ runNo' = runNo + 1
    /\ pc' = 1
    /\ status' = "running"
    /\ err' = "none"
    /\ variables' = <<>>
    /\ model' = DefaultModel
    /\ output' = <<>>
    /\ calls' = <<>>
    /\ UNCHANGED <<stmts, parsed, provider, parse>>

Next ==
    \/ _handle_model
    \/ _handle_set
    \/ _handle_template
    \/ _handle_prompt
    \/ _handle_message
    \/ _handle_generate
    \/ _handle_call
    \/ _handle_print
    \/ run_return
    \/ run_again

Spec == Init /\ [][Next]_vars

SpecReserved == InitReserved /\ [][Next]_vars

SpecText == InitText /\ [][Next]_vars

SpecPrint == InitPrint /\ [][Next]_vars

SpecTools == InitTools /\ [][Next]_vars

SpecGenerate == InitGenerate /\ [][Next]_vars

SpecModel == InitModel /\ [][Next]_vars

TypeOK ==
    /\ status \in {"running", "done", "failed"}
    /\ pc \in 1..(Len(stmts) + 1)
    /\ Len(stmts) = Len(parsed)

\* ==== parse_script (genai_lang/parser.py) ====
\* A str is a sequence of one-character strings here, so that the regular
\* expressions and shlex can be followed character by character.

\* ---- characters ----
LowerCase == <<"a", "b", "c", "d", "e", "f", "g", "h", "i", "j", "k", "l", "m",
               "n", "o", "p", "q", "r", "s", "t", "u", "v", "w", "x", "y", "z">>
UpperCase == <<"A", "B", "C", "D", "E", "F", "G", "H", "I", "J", "K", "L", "M",
               "N", "O", "P", "Q", "R", "S", "T", "U", "V", "W", "X", "Y", "Z">>
\* \d, [a-zA-Z_], \w and \s over ASCII
DigitChars == {Digit[i] : i \in 1..10}
IdentStart == {LowerCase[i] : i \in 1..26} \cup {UpperCase[i] : i \in 1..26} \cup {"_"}
WordChars == IdentStart \cup DigitChars
Whitespace == {" ", "\t"}
Quote == "\""

\* the characters as one str of the runtime
str_of(chars) == JoinWith(chars, "")

\* str.lower
lower(s) ==
    [i \in 1..Len(s) |->
        IF \E k \in 1..26 : UpperCase[k] = s[i]
        THEN LowerCase[CHOOSE k \in 1..26 : UpperCase[k] = s[i]]
        ELSE s[i]]

RECURSIVE lstrip(_)
lstrip(s) == IF s # <<>> /\ Head(s) \in Whitespace THEN lstrip(Tail(s)) ELSE s

RECURSIVE rstrip(_)
rstrip(s) ==
    IF s # <<>> /\ s[Len(s)] \in Whitespace THEN rstrip(SubSeq(s, 1, Len(s) - 1)) ELSE s

\* str.strip
strip(s) == rstrip(lstrip(s))

startswith(s, prefix) == Len(s) >= Len(prefix) /\ SubSeq(s, 1, Len(prefix)) = prefix

endswith(s, suffix) ==
    Len(s) >= Len(suffix) /\ SubSeq(s, Len(s) - Len(suffix) + 1, Len(s)) = suffix

\* ---- regular expressions ----
\* A greedy run X*: the position after the longest run of characters of
\* `chars` that starts at position i.
RECURSIVE skip(_, _, _)
skip(s, i, chars) == IF i <= Len(s) /\ s[i] \in chars THEN skip(s, i + 1, chars) ELSE i

\* The same from the right: the position before the longest run that ends at
\* position i of characters that are (member) or are not (~member) whitespace.
RECURSIVE back(_, _, _)
back(s, i, member) ==
    IF i >= 1 /\ ((s[i] \in Whitespace) = member) THEN back(s, i - 1, member) ELSE i

\* [a-zA-Z_][\w]* at position i: the position after it, i when there is none
ident_end(s, i) ==
    IF i <= Len(s) /\ s[i] \in IdentStart THEN skip(s, i + 1, WordChars) ELSE i

NoMatch == [ok |-> FALSE]

\* ASSIGN_RE.match: name, \s*=\s*, value (.+, which gets the last blank when
\* nothing but blanks follows the equals sign)
ASSIGN_RE(s) ==
    LET n == ident_end(s, 1)
        e == skip(s, n, Whitespace)
        v == skip(s, e + 1, Whitespace)
    IN  IF n = 1 \/ e > Len(s) THEN NoMatch
        ELSE IF s[e] # "=" THEN NoMatch
        ELSE IF v <= Len(s)
        THEN [ok |-> TRUE, name |-> SubSeq(s, 1, n - 1), value |-> SubSeq(s, v, Len(s))]
        ELSE IF v > e + 1
        THEN [ok |-> TRUE, name |-> SubSeq(s, 1, n - 1), value |-> <<s[Len(s)]>>]
        ELSE NoMatch

\* MODEL_RE.match: model\s+"(name: .+)"
MODEL_RE(s) ==
    LET q == skip(s, 6, Whitespace)
    IN  IF /\ startswith(s, <<"m", "o", "d", "e", "l">>)
           /\ q > 6
           /\ Len(s) >= q + 2
           /\ s[q] = Quote
           /\ s[Len(s)] = Quote
        THEN [ok |-> TRUE, name |-> SubSeq(s, q + 1, Len(s) - 1)]
        ELSE NoMatch

\* TEMPLATE_RE.match: template\s+(name)\s*=\s+"(value: .*)"
TEMPLATE_RE(s) ==
    LET a == skip(s, 9, Whitespace)
        n == ident_end(s, a)
        e == skip(s, n, Whitespace)
        q == skip(s, e + 1, Whitespace)
    IN  IF /\ startswith(s, <<"t", "e", "m", "p", "l", "a", "t", "e">>)
           /\ a > 9
           /\ n > a
           /\ e <= Len(s)
           /\ s[e] = "="
           /\ q > e + 1
           /\ Len(s) >= q + 1
           /\ s[q] = Quote
           /\ s[Len(s)] = Quote
        THEN [ok |-> TRUE, name |-> SubSeq(s, a, n - 1), value |-> SubSeq(s, q + 1, Len(s) - 1)]
        ELSE NoMatch

\* SET_RE.match on a stripped line: set\s+(rest: .+)
SET_RE(s) ==
    LET a == skip(s, 4, Whitespace)
    IN  IF startswith(s, <<"s", "e", "t">>) /\ a > 4 /\ a <= Len(s)
        THEN [ok |-> TRUE, rest |-> SubSeq(s, a, Len(s))]
        ELSE NoMatch

\* GENERATE_RE.match: generate\s+(target)\s+from\s+(prompt)(rest: .*)
GENERATE_RE(s) ==
    LET a == skip(s, 9, Whitespace)
        t == ident_end(s, a)
        b == skip(s, t, Whitespace)
        c == skip(s, b + 4, Whitespace)
        r == ident_end(s, c)
    IN  IF /\ startswith(s, <<"g", "e", "n", "e", "r", "a", "t", "e">>)
           /\ a > 9
           /\ t > a
           /\ b > t
           /\ b + 3 <= Len(s)
           /\ SubSeq(s, b, b + 3) = <<"f", "r", "o", "m">>
           /\ c > b + 4
           /\ r > c
        THEN [ok |-> TRUE, target |-> SubSeq(s, a, t - 1), prompt |-> SubSeq(s, c, r - 1),
              rest |-> SubSeq(s, r, Len(s))]
        ELSE NoMatch

\* CALL_RE.match: call\s+(tool)\s+(args: .+?)\s+into\s+(target)$.  The
\* target is the last word and `into` the word before it; what lies between
\* the tool and `into` begins and ends with a blank and is the args between
\* blanks (one blank of at least three when there is nothing else).
CALL_RE(s) ==
    LET a == skip(s, 5, Whitespace)
        t == ident_end(s, a)
        w == back(s, Len(s), FALSE)
        g == back(s, w, TRUE)
        between == SubSeq(s, t, g - 4)
    IN  IF /\ startswith(s, <<"c", "a", "l", "l">>)
           /\ a > 5
           /\ t > a
           /\ w < Len(s)
           /\ ident_end(s, w + 1) = Len(s) + 1
           /\ g < w
           /\ g - 4 >= t
           /\ SubSeq(s, g - 3, g) = <<"i", "n", "t", "o">>
           /\ s[t] \in Whitespace
           /\ s[g - 4] \in Whitespace
           /\ (strip(between) # <<>> \/ Len(between) >= 3)
        THEN [ok |-> TRUE, tool |-> SubSeq(s, a, t - 1),
              args |-> IF strip(between) # <<>> THEN strip(between)
                       ELSE <<between[Len(between) - 1]>>,
              target |-> SubSeq(s, w + 1, Len(s))]
        ELSE NoMatch

\* PRINT_RE.match on a stripped line: print\s+(value: .+)
PRINT_RE(s) ==
    LET a == skip(s, 6, Whitespace)
    IN  IF startswith(s, <<"p", "r", "i", "n", "t">>) /\ a > 6 /\ a <= Len(s)
        THEN [ok |-> TRUE, value |-> SubSeq(s, a, Len(s))]
        ELSE NoMatch

\* MESSAGE_RE.match: message\s+(role)\s+"(value: .*)"
MESSAGE_RE(s) ==
    LET a == skip(s, 8, Whitespace)
        r == ident_end(s, a)
        q == skip(s, r, Whitespace)
    IN  IF /\ startswith(s, <<"m", "e", "s", "s", "a", "g", "e">>)
           /\ a > 8
           /\ r > a
           /\ q > r
           /\ Len(s) >= q + 1
           /\ s[q] = Quote
           /\ s[Len(s)] = Quote
        THEN [ok |-> TRUE, role |-> SubSeq(s, a, r - 1), value |-> SubSeq(s, q + 1, Len(s) - 1)]
        ELSE NoMatch

\* PROMPT_START_RE.match: prompt\s+"""\s*
PROMPT_START_RE(s) ==
    LET a == skip(s, 7, Whitespace)
    IN  /\ startswith(s, <<"p", "r", "o", "m", "p", "t">>)
        /\ a > 7
        /\ a + 2 <= Len(s)
        /\ SubSeq(s, a, a + 2) = <<Quote, Quote, Quote>>
        /\ skip(s, a + 3, Whitespace) = Len(s) + 1

\* PROMPT_END_RE.match: """\s*
PROMPT_END_RE(s) ==
    /\ startswith(s, <<Quote, Quote, Quote>>)
    /\ skip(s, 4, Whitespace) = Len(s) + 1

\* ---- literals ----
\* re.fullmatch(r"-?\d+", raw)
fullmatch_int(raw) ==
    LET d == IF raw # <<>> /\ raw[1] = "-" THEN 2 ELSE 1
    IN  d <= Len(raw) /\ skip(raw, d, DigitChars) = Len(raw) + 1

\* re.fullmatch(r"-?\d+\.\d+", raw)
fullmatch_float(raw) ==
    LET d == IF raw # <<>> /\ raw[1] = "-" THEN 2 ELSE 1
        p == skip(raw, d, DigitChars)
    IN  /\ p > d
        /\ p < Len(raw)
        /\ raw[p] = "."
        /\ skip(raw, p + 1, DigitChars) = Len(raw) + 1

\* the number a run of digits denotes
RECURSIVE digits_value(_)
digits_value(ds) ==
    IF ds = <<>> THEN 0
    ELSE digits_value(SubSeq(ds, 1, Len(ds) - 1)) * 10
         + (CHOOSE k \in 0..9 : Digit[k + 1] = ds[Len(ds)])

\* int(raw) for raw matching -?\d+
int_of(raw) ==
    IF raw[1] = "-" THEN -digits_value(Tail(raw)) ELSE digits_value(raw)

\* float(raw) for raw matching -?\d+\.\d+, in tenths: the decimal literals of
\* the scripts have one digit after the point
float_of(raw) ==
    LET neg == raw[1] = "-"
        body == IF neg THEN Tail(raw) ELSE raw
        p == skip(body, 1, DigitChars)
        tenths == digits_value(SubSeq(body, 1, p - 1)) * 10 + digits_value(<<body[p + 1]>>)
    IN  IF neg THEN -tenths ELSE tenths

True == <<"t", "r", "u", "e">>
False == <<"f", "a", "l", "s", "e">>

\* A _parse_value that tries JSON on every bracketed token, wherever it stands.
_parse_value_any_json(raw0, allow_json) ==
    LET raw == strip(raw0)
        bracketed == \/ startswith(raw, <<"{">>) /\ endswith(raw, <<"}">>)
                     \/ startswith(raw, <<"[">>) /\ endswith(raw, <<"]">>)
    IN  IF startswith(raw, <<Quote>>) /\ endswith(raw, <<Quote>>)
        THEN StrV(str_of(SubSeq(raw, 2, Len(raw) - 1)))
        ELSE IF bracketed /\ json_loads(str_of(raw)).ok
        THEN json_loads(str_of(raw)).value
        ELSE IF lower(raw) = True THEN BoolV(TRUE)
        ELSE IF lower(raw) = False THEN BoolV(FALSE)
        ELSE IF fullmatch_int(raw) THEN IntV(int_of(raw))
        ELSE IF fullmatch_float(raw) THEN FloatV(float_of(raw))
        ELSE StrV(str_of(raw))

\* _parse_value: quotes, then JSON where allowed, then bool, int, float, str
_parse_value(raw0, allow_json) ==
    LET raw == strip(raw0)
        bracketed == \/ startswith(raw, <<"{">>) /\ endswith(raw, <<"}">>)
                     \/ startswith(raw, <<"[">>) /\ endswith(raw, <<"]">>)
    IN  IF startswith(raw, <<Quote>>) /\ endswith(raw, <<Quote>>)
        THEN StrV(str_of(SubSeq(raw, 2, Len(raw) - 1)))
        ELSE IF allow_json /\ bracketed /\ json_loads(str_of(raw)).ok
        THEN json_loads(str_of(raw)).value
        ELSE IF lower(raw) = True THEN BoolV(TRUE)
        ELSE IF lower(raw) = False THEN BoolV(FALSE)
        ELSE IF fullmatch_int(raw) THEN IntV(int_of(raw))
        ELSE IF fullmatch_float(raw) THEN FloatV(float_of(raw))
        ELSE StrV(str_of(raw))

\* ---- shlex ----
\* shlex.split in POSIX mode over texts without backslashes: blanks separate
\* the tokens, a quote character opens a quoted stretch that runs to the next
\* same quote character and is not part of the token, and the end of the text
\* inside a quoted stretch is a ValueError ("No closing quotation").
\* quote: the open quote character, "" outside quotes; open: a token has begun
RECURSIVE shlex_scan(_, _, _, _, _, _)
shlex_scan(s, i, quote, open, token, tokens) ==
    IF i > Len(s)
    THEN IF quote # "" THEN [ok |-> FALSE, tokens |-> <<>>]
         ELSE [ok |-> TRUE, tokens |-> IF open THEN Append(tokens, token) ELSE tokens]
    ELSE IF quote # ""
    THEN IF s[i] = quote
         THEN shlex_scan(s, i + 1, "", TRUE, token, tokens)
         ELSE shlex_scan(s, i + 1, quote, TRUE, Append(token, s[i]), tokens)
    ELSE IF s[i] \in Whitespace
    THEN shlex_scan(s, i + 1, "", FALSE, <<>>,
                    IF open THEN Append(tokens, token) ELSE tokens)
    ELSE IF s[i] \in {Quote, "'"}
    THEN shlex_scan(s, i + 1, s[i], TRUE, token, tokens)
    ELSE shlex_scan(s, i + 1, "", TRUE, Append(token, s[i]), tokens)

shlex_split(raw) == shlex_scan(raw, 1, "", FALSE, <<>>, <<>>)

\* ---- arguments ----
\* An args dict, an error of _parse_*_args itself (ParseError) or one that
\* shlex raised (ValueError).
ArgsOk(args) == [ok |-> TRUE, args |-> args, kind |-> "none", msg |-> ""]
ArgsError(kind, msg) == [ok |-> FALSE, args |-> <<>>, kind |-> kind, msg |-> msg]

\* args[key] = value
SetItem(args, key, value) ==
    [k \in (DOMAIN args) \cup {key} |-> IF k = key THEN value ELSE args[k]]

\* the loop of _parse_call_args over the tokens from the i-th on
RECURSIVE call_args_loop(_, _, _)
call_args_loop(tokens, i, args) ==
    IF i > Len(tokens) THEN ArgsOk(args)
    ELSE LET match == ASSIGN_RE(tokens[i])
         IN  IF ~match.ok
             THEN ArgsError("ParseError", "Invalid call argument: " \o str_of(tokens[i]))
             ELSE call_args_loop(tokens, i + 1,
                                 SetItem(args, str_of(match.name),
                                         _parse_value(match.value, FALSE)))

_parse_call_args(raw) ==
    IF ~shlex_split(raw).ok THEN ArgsError("ValueError", "No closing quotation")
    ELSE call_args_loop(shlex_split(raw).tokens, 1, <<>>)

GenerateDefaults ==
    [temperature |-> DefaultTemperature, max_tokens |-> DefaultMaxTokens,
     format |-> NoneV, schema |-> NoneV]

\* the loop of _parse_generate_args over the tokens from the i-th on
RECURSIVE generate_args_loop(_, _, _)
generate_args_loop(tokens, i, args) ==
    IF i > Len(tokens) THEN ArgsOk(args)
    ELSE LET match == ASSIGN_RE(tokens[i])
             key == str_of(match.name)
         IN  IF ~match.ok
             THEN ArgsError("ParseError", "Invalid generate argument: " \o str_of(tokens[i]))
             ELSE IF key \notin DOMAIN args
             THEN ArgsError("ParseError", "Unsupported generate argument: " \o key)
             ELSE generate_args_loop(tokens, i + 1,
                                     SetItem(args, key, _parse_value(match.value, FALSE)))

\* A _parse_generate_args in which a repeated key keeps its first value.
_parse_generate_args_first(raw) ==
    IF raw = <<>> THEN ArgsOk(GenerateDefaults)
    ELSE IF ~shlex_split(raw).ok THEN ArgsError("ValueError", "No closing quotation")
    ELSE LET tokens == shlex_split(raw).tokens
             kept == [i \in 1..Len(tokens) |->
                        IF \E k \in 1..(i - 1) :
                              /\ ASSIGN_RE(tokens[k]).ok /\ ASSIGN_RE(tokens[i]).ok
                              /\ ASSIGN_RE(tokens[k]).name = ASSIGN_RE(tokens[i]).name
                        THEN tokens[CHOOSE k \in 1..(i - 1) :
                                        /\ ASSIGN_RE(tokens[k]).ok
                                        /\ ASSIGN_RE(tokens[k]).name = ASSIGN_RE(tokens[i]).name
                                        /\ \A j \in 1..(k - 1) :
                                              ~ASSIGN_RE(tokens[j]).ok
                                              \/ ASSIGN_RE(tokens[j]).name # ASSIGN_RE(tokens[i]).name]
                        ELSE tokens[i]]
         IN  generate_args_loop(kept, 1, GenerateDefaults)

_parse_generate_args(raw) ==
    IF raw = <<>> THEN ArgsOk(GenerateDefaults)
    ELSE IF ~shlex_split(raw).ok THEN ArgsError("ValueError", "No closing quotation")
    ELSE generate_args_loop(shlex_split(raw).tokens, 1, GenerateDefaults)

\* ---- prompt blocks ----
\* "\n".join(collected)
RECURSIVE join_lines(_)
join_lines(collected) ==
    IF collected = <<>> THEN <<>>
    ELSE IF Len(collected) = 1 THEN collected[1]
    ELSE collected[1] \o <<"\n">> \o join_lines(Tail(collected))

\* the loop of _consume_prompt at 0-based position i
RECURSIVE consume_loop(_, _, _, _)
consume_loop(ls, start_index, i, collected) ==
    IF i >= Len(ls)
    THEN [ok |-> FALSE, text |-> <<>>, end_index |-> 0, line |-> start_index + 1]
    ELSE IF PROMPT_END_RE(strip(ls[i + 1]))
    THEN [ok |-> TRUE, text |-> join_lines(collected), end_index |-> i, line |-> 0]
    ELSE consume_loop(ls, start_index, i + 1, Append(collected, ls[i + 1]))

\* A loop that trims the lines it collects.
RECURSIVE consume_loop_stripping(_, _, _, _)
consume_loop_stripping(ls, start_index, i, collected) ==
    IF i >= Len(ls)
    THEN [ok |-> FALSE, text |-> <<>>, end_index |-> 0, line |-> start_index + 1]
    ELSE IF PROMPT_END_RE(strip(ls[i + 1]))
    THEN [ok |-> TRUE, text |-> join_lines(collected), end_index |-> i, line |-> 0]
    ELSE consume_loop_stripping(ls, start_index, i + 1, Append(collected, strip(ls[i + 1])))

\* A _consume_prompt that trims the lines of the block.
_consume_prompt_stripping(ls, start_index) ==
    consume_loop_stripping(ls, start_index, start_index + 1, <<>>)

\* A _consume_prompt that reports the line where the input ended.
_consume_prompt_at_end(ls, start_index) ==
    LET found == consume_loop(ls, start_index, start_index + 1, <<>>)
    IN  IF found.ok THEN found ELSE [found EXCEPT !.line = Len(ls)]

\* _consume_prompt: the text up to the first closing line and that line's
\* position, or ParseError("Line <start_index + 1>: Unterminated prompt block")
_consume_prompt(ls, start_index) == consume_loop(ls, start_index, start_index + 1, <<>>)

\* ---- the str of a template, prompt or message as str.format reads it ----
\* literal text and {field} in turn; the texts of the scripts close every brace
RECURSIVE fields(_)
fields(s) ==
    IF s = <<>> THEN <<>>
    ELSE IF s[1] = "{"
    THEN LET c == skip(s, 2, WordChars)
         IN  <<Field(str_of(SubSeq(s, 2, c - 1)))>> \o fields(SubSeq(s, c + 1, Len(s)))
    ELSE LET n == CHOOSE k \in 2..(Len(s) + 1) :
                      /\ k = Len(s) + 1 \/ s[k] = "{"
                      /\ \A j \in 2..(k - 1) : s[j] # "{"
         IN  <<Lit(str_of(SubSeq(s, 1, n - 1)))>> \o fields(SubSeq(s, n, Len(s)))

\* ---- parse_script, one step per turn of its loop ----
Parsing == [status |-> "parsing", error |-> [kind |-> "none", line |-> 0, msg |-> ""]]

\* what the exception that left parse_script says: its class, the number after
\* "Line " (0 when its text has no such prefix) and the rest of the text
Raised(kind, line_number, msg) ==
    [status |-> "raised", error |-> [kind |-> kind, line |-> line_number, msg |-> msg]]

\* raw_line.strip() and line_no of the turn
line == strip(lines[index + 1])
line_no == index + 1

\* the first of the tests of the loop body that the stripped line passes
branch_of(stripped) ==
    IF stripped = <<>> \/ startswith(stripped, <<"#">>) THEN "skip"
    ELSE IF PROMPT_START_RE(stripped) THEN "prompt"
    ELSE IF MODEL_RE(stripped).ok THEN "model"
    ELSE IF TEMPLATE_RE(stripped).ok THEN "template"
    ELSE IF SET_RE(stripped).ok THEN "set"
    ELSE IF GENERATE_RE(stripped).ok THEN "generate"
    ELSE IF CALL_RE(stripped).ok THEN "call"
    ELSE IF MESSAGE_RE(stripped).ok THEN "message"
    ELSE IF PRINT_RE(stripped).ok THEN "print"
    ELSE "unrecognized"

branch == branch_of(line)

Turn(kind) == outcome = Parsing /\ index < Len(lines) /\ branch = kind

\* statements.append(statement); index += 1; continue
AppendAndContinue(statement) ==
    /\ statements' = Append(statements, statement)
    /\ index' = index + 1
    /\ UNCHANGED <<lines, outcome, runtime>>

\* raise: parse_script is left, nothing is returned
RaiseFromParse(kind, line_number, msg) ==
    /\ outcome' = Raised(kind, line_number, msg)
    /\ UNCHANGED <<lines, index, statements, runtime>>

parse_skip ==
    /\ Turn("skip")
    /\ index' = index + 1
    /\ UNCHANGED <<lines, statements, outcome, runtime>>

parse_prompt ==
    /\ Turn("prompt")
    /\ LET block == _consume_prompt(lines, index)
       IN  IF block.ok
           THEN /\ statements' = Append(statements, StmtPrompt(Text(fields(block.text))))
                /\ index' = block.end_index + 1
                /\ UNCHANGED <<lines, outcome, runtime>>
           ELSE RaiseFromParse("ParseError", block.line, "Unterminated prompt block")

parse_model ==
    /\ Turn("model")
    /\ AppendAndContinue(StmtModel(str_of(MODEL_RE(line).name)))

parse_template ==
    /\ Turn("template")
    /\ LET template_match == TEMPLATE_RE(line)
       IN  AppendAndContinue(StmtTemplate(str_of(template_match.name),
                                          Text(fields(template_match.value))))

parse_set ==
    /\ Turn("set")
    /\ LET assign_match == ASSIGN_RE(SET_RE(line).rest)
       IN  IF ~assign_match.ok
           THEN RaiseFromParse("ParseError", line_no,
                               "Invalid set statement: " \o str_of(line))
           ELSE AppendAndContinue(StmtSet(str_of(assign_match.name),
                                          _parse_value(assign_match.value, TRUE)))

parse_generate ==
    /\ Turn("generate")
    /\ LET generate_match == GENERATE_RE(line)
           parsed_args == _parse_generate_args(strip(generate_match.rest))
           options == parsed_args.args
       IN  IF parsed_args.ok
           THEN AppendAndContinue(StmtGenerate(str_of(generate_match.target),
                                               str_of(generate_match.prompt),
                                               options.temperature, options.max_tokens,
                                               options.format, options.schema))
           ELSE IF parsed_args.kind = "ParseError"
           THEN RaiseFromParse("ParseError", line_no, parsed_args.msg)
           ELSE RaiseFromParse(parsed_args.kind, 0, parsed_args.msg)

parse_call ==
    /\ Turn("call")
    /\ LET call_match == CALL_RE(line)
           parsed_args == _parse_call_args(call_match.args)
       IN  IF parsed_args.ok
           THEN AppendAndContinue(StmtCall(str_of(call_match.tool), parsed_args.args,
                                           str_of(call_match.target)))
           ELSE IF parsed_args.kind = "ParseError"
           THEN RaiseFromParse("ParseError", line_no, parsed_args.msg)
           ELSE RaiseFromParse(parsed_args.kind, 0, parsed_args.msg)

parse_message ==
    /\ Turn("message")
    /\ LET message_match == MESSAGE_RE(line)
       IN  AppendAndContinue(StmtMessage(str_of(message_match.role),
                                         Text(fields(message_match.value))))

parse_print ==
    /\ Turn("print")
    /\ AppendAndContinue(StmtPrint(_parse_value(PRINT_RE(line).value, FALSE)))

parse_unrecognized ==
    /\ Turn("unrecognized")
    /\ RaiseFromParse("ParseError", line_no, "Unrecognized statement: " \o str_of(line))

\* the loop is over: return statements
parse_return ==
    /\ outcome = Parsing
    /\ index >= Len(lines)
    /\ outcome' = NotParsing
    /\ UNCHANGED <<lines, index, statements, runtime>>

NextParse ==
    \/ parse_skip
    \/ parse_prompt
    \/ parse_model
    \/ parse_template
    \/ parse_set
    \/ parse_generate
    \/ parse_call
    \/ parse_message
    \/ parse_print
    \/ parse_unrecognized
    \/ parse_return

\* ---- sources ----
\* A source is cut into pieces, each one line or one prompt block, whole or
\* cut short; the comment over a piece shows its lines.
\* every kind of line and of literal, well formed and not
PiecesParse ==
    {
      \*    
      << <<" ", " ", " ">> >>,
      \* # note
      << <<"#", " ", "n", "o", "t", "e">> >>,
      \* model "demo"
      << <<"m", "o", "d", "e", "l", " ", "\"", "d", "e", "m", "o", "\"">> >>,
      \* template g = "Hello {topic}!"
      << <<"t", "e", "m", "p", "l", "a", "t", "e", " ", "g", " ", "=", " ", "\"", "H",
           "e", "l", "l", "o", " ", "{", "t", "o", "p", "i", "c", "}", "!", "\"">> >>,
      \* set topic = agents
      << <<"s", "e", "t", " ", "t", "o", "p", "i", "c", " ", "=", " ", "a", "g", "e",
           "n", "t", "s">> >>,
      \* set x = "12"
      << <<"s", "e", "t", " ", "x", " ", "=", " ", "\"", "1", "2", "\"">> >>,
      \* set x = "
      << <<"s", "e", "t", " ", "x", " ", "=", " ", "\"">> >>,
      \* set x = TRUE
      << <<"s", "e", "t", " ", "x", " ", "=", " ", "T", "R", "U", "E">> >>,
      \* set x = -12
      << <<"s", "e", "t", " ", "x", " ", "=", " ", "-", "1", "2">> >>,
      \* set x = 1.5
      << <<"s", "e", "t", " ", "x", " ", "=", " ", "1", ".", "5">> >>,
      \* set messages = [{"role": "user", "content": "a"}]
      << <<"s", "e", "t", " ", "m", "e", "s", "s", "a", "g", "e", "s", " ", "=", " ",
           "[", "{", "\"", "r", "o", "l", "e", "\"", ":", " ", "\"", "u", "s", "e", "r",
           "\"", ",", " ", "\"", "c", "o", "n", "t", "e", "n", "t", "\"", ":", " ", "\"",
           "a", "\"", "}", "]">> >>,
      \* set x = [1,
      << <<"s", "e", "t", " ", "x", " ", "=", " ", "[", "1", ",">> >>,
      \* set = 1
      << <<"s", "e", "t", " ", "=", " ", "1">> >>,
      \* generate out from prompt
      << <<"g", "e", "n", "e", "r", "a", "t", "e", " ", "o", "u", "t", " ", "f", "r",
           "o", "m", " ", "p", "r", "o", "m", "p", "t">> >>,
      \* generate out from prompt temperature=0.3 temperature=0.9 max_tokens=10
      << <<"g", "e", "n", "e", "r", "a", "t", "e", " ", "o", "u", "t", " ", "f", "r",
           "o", "m", " ", "p", "r", "o", "m", "p", "t", " ", "t", "e", "m", "p", "e",
           "r", "a", "t", "u", "r", "e", "=", "0", ".", "3", " ", "t", "e", "m", "p",
           "e", "r", "a", "t", "u", "r", "e", "=", "0", ".", "9", " ", "m", "a", "x",
           "_", "t", "o", "k", "e", "n", "s", "=", "1", "0">> >>,
      \* generate out from prompt format=json schema="a b"
      << <<"g", "e", "n", "e", "r", "a", "t", "e", " ", "o", "u", "t", " ", "f", "r",
           "o", "m", " ", "p", "r", "o", "m", "p", "t", " ", "f", "o", "r", "m", "a",
           "t", "=", "j", "s", "o", "n", " ", "s", "c", "h", "e", "m", "a", "=", "\"",
           "a", " ", "b", "\"">> >>,
      \* generate out from prompt foo=1
      << <<"g", "e", "n", "e", "r", "a", "t", "e", " ", "o", "u", "t", " ", "f", "r",
           "o", "m", " ", "p", "r", "o", "m", "p", "t", " ", "f", "o", "o", "=", "1">> >>,
      \* generate out from prompt foo=1 format="json
      << <<"g", "e", "n", "e", "r", "a", "t", "e", " ", "o", "u", "t", " ", "f", "r",
           "o", "m", " ", "p", "r", "o", "m", "p", "t", " ", "f", "o", "o", "=", "1",
           " ", "f", "o", "r", "m", "a", "t", "=", "\"", "j", "s", "o", "n">> >>,
      \* generate out from prompt 9x=1
      << <<"g", "e", "n", "e", "r", "a", "t", "e", " ", "o", "u", "t", " ", "f", "r",
           "o", "m", " ", "p", "r", "o", "m", "p", "t", " ", "9", "x", "=", "1">> >>,
      \* call echo text="hi" into x
      << <<"c", "a", "l", "l", " ", "e", "c", "h", "o", " ", "t", "e", "x", "t", "=",
           "\"", "h", "i", "\"", " ", "i", "n", "t", "o", " ", "x">> >>,
      \* call echo text="12" into x
      << <<"c", "a", "l", "l", " ", "e", "c", "h", "o", " ", "t", "e", "x", "t", "=",
           "\"", "1", "2", "\"", " ", "i", "n", "t", "o", " ", "x">> >>,
      \* call echo text="hi into x
      << <<"c", "a", "l", "l", " ", "e", "c", "h", "o", " ", "t", "e", "x", "t", "=",
           "\"", "h", "i", " ", "i", "n", "t", "o", " ", "x">> >>,
      \* call echo text into x
      << <<"c", "a", "l", "l", " ", "e", "c", "h", "o", " ", "t", "e", "x", "t", " ",
           "i", "n", "t", "o", " ", "x">> >>,
      \* call echo text=[] into x
      << <<"c", "a", "l", "l", " ", "e", "c", "h", "o", " ", "t", "e", "x", "t", "=",
           "[", "]", " ", "i", "n", "t", "o", " ", "x">> >>,
      \* message user "Hi {topic}"
      << <<"m", "e", "s", "s", "a", "g", "e", " ", "u", "s", "e", "r", " ", "\"", "H",
           "i", " ", "{", "t", "o", "p", "i", "c", "}", "\"">> >>,
      \* print x
      << <<"p", "r", "i", "n", "t", " ", "x">> >>,
      \* print "true"
      << <<"p", "r", "i", "n", "t", " ", "\"", "t", "r", "u", "e", "\"">> >>,
      \* bogus line
      << <<"b", "o", "g", "u", "s", " ", "l", "i", "n", "e">> >>,
      \* prompt """
      \* Write about {topic}.
      \* """
      << <<"p", "r", "o", "m", "p", "t", " ", "\"", "\"", "\"">>,
         <<"W", "r", "i", "t", "e", " ", "a", "b", "o", "u", "t", " ", "{", "t", "o",
           "p", "i", "c", "}", ".">>,
         <<"\"", "\"", "\"">> >>,
      \* prompt """
      \* abc
      << <<"p", "r", "o", "m", "p", "t", " ", "\"", "\"", "\"">>,
         <<"a", "b", "c">> >> }

\* prompt blocks, closed and left open, among lines of every kind
PiecesBlock ==
    {
      \* # note
      << <<"#", " ", "n", "o", "t", "e">> >>,
      \* model "demo"
      << <<"m", "o", "d", "e", "l", " ", "\"", "d", "e", "m", "o", "\"">> >>,
      \* template g = "Hello {topic}!"
      << <<"t", "e", "m", "p", "l", "a", "t", "e", " ", "g", " ", "=", " ", "\"", "H",
           "e", "l", "l", "o", " ", "{", "t", "o", "p", "i", "c", "}", "!", "\"">> >>,
      \* set x = 1
      << <<"s", "e", "t", " ", "x", " ", "=", " ", "1">> >>,
      \* generate out from prompt
      << <<"g", "e", "n", "e", "r", "a", "t", "e", " ", "o", "u", "t", " ", "f", "r",
           "o", "m", " ", "p", "r", "o", "m", "p", "t">> >>,
      \* call echo text="hi" into x
      << <<"c", "a", "l", "l", " ", "e", "c", "h", "o", " ", "t", "e", "x", "t", "=",
           "\"", "h", "i", "\"", " ", "i", "n", "t", "o", " ", "x">> >>,
      \* message user "Hi there."
      << <<"m", "e", "s", "s", "a", "g", "e", " ", "u", "s", "e", "r", " ", "\"", "H",
           "i", " ", "t", "h", "e", "r", "e", ".", "\"">> >>,
      \* print x
      << <<"p", "r", "i", "n", "t", " ", "x">> >>,
      \* bogus line
      << <<"b", "o", "g", "u", "s", " ", "l", "i", "n", "e">> >>,
      \* """
      << <<"\"", "\"", "\"">> >>,
      \* prompt """
      \* Write about {topic}.
      \* """
      << <<"p", "r", "o", "m", "p", "t", " ", "\"", "\"", "\"">>,
         <<"W", "r", "i", "t", "e", " ", "a", "b", "o", "u", "t", " ", "{", "t", "o",
           "p", "i", "c", "}", ".">>,
         <<"\"", "\"", "\"">> >>,
      \*   prompt   """  
      \* set x = 1
      \* # text
      \* (an empty line)
      \*   indented 
      \*   """  
      << <<" ", " ", "p", "r", "o", "m", "p", "t", " ", " ", " ", "\"", "\"", "\"", " ",
           " ">>,
         <<"s", "e", "t", " ", "x", " ", "=", " ", "1">>,
         <<"#", " ", "t", "e", "x", "t">>,
         <<>>,
         <<" ", " ", "i", "n", "d", "e", "n", "t", "e", "d", " ">>,
         <<" ", " ", "\"", "\"", "\"", " ", " ">> >>,
      \* prompt """
      \* """
      << <<"p", "r", "o", "m", "p", "t", " ", "\"", "\"", "\"">>,
         <<"\"", "\"", "\"">> >>,
      \* prompt """
      \* abc
      << <<"p", "r", "o", "m", "p", "t", " ", "\"", "\"", "\"">>,
         <<"a", "b", "c">> >>,
      \* prompt """
      << <<"p", "r", "o", "m", "p", "t", " ", "\"", "\"", "\"">> >> }

\* literals of every type on set, print, call and generate lines
PiecesLiteral ==
    {
      \* # note
      << <<"#", " ", "n", "o", "t", "e">> >>,
      \* model "demo"
      << <<"m", "o", "d", "e", "l", " ", "\"", "d", "e", "m", "o", "\"">> >>,
      \* template g = "Hello {topic}!"
      << <<"t", "e", "m", "p", "l", "a", "t", "e", " ", "g", " ", "=", " ", "\"", "H",
           "e", "l", "l", "o", " ", "{", "t", "o", "p", "i", "c", "}", "!", "\"">> >>,
      \* message user "Hi {topic}"
      << <<"m", "e", "s", "s", "a", "g", "e", " ", "u", "s", "e", "r", " ", "\"", "H",
           "i", " ", "{", "t", "o", "p", "i", "c", "}", "\"">> >>,
      \* bogus line
      << <<"b", "o", "g", "u", "s", " ", "l", "i", "n", "e">> >>,
      \* prompt """
      \* Write about {topic}.
      \* """
      << <<"p", "r", "o", "m", "p", "t", " ", "\"", "\"", "\"">>,
         <<"W", "r", "i", "t", "e", " ", "a", "b", "o", "u", "t", " ", "{", "t", "o",
           "p", "i", "c", "}", ".">>,
         <<"\"", "\"", "\"">> >>,
      \* set x = "12"
      << <<"s", "e", "t", " ", "x", " ", "=", " ", "\"", "1", "2", "\"">> >>,
      \* set x = TRUE
      << <<"s", "e", "t", " ", "x", " ", "=", " ", "T", "R", "U", "E">> >>,
      \* set x = -1.5
      << <<"s", "e", "t", " ", "x", " ", "=", " ", "-", "1", ".", "5">> >>,
      \* set messages = [{"role": "user", "content": "a"}]
      << <<"s", "e", "t", " ", "m", "e", "s", "s", "a", "g", "e", "s", " ", "=", " ",
           "[", "{", "\"", "r", "o", "l", "e", "\"", ":", " ", "\"", "u", "s", "e", "r",
           "\"", ",", " ", "\"", "c", "o", "n", "t", "e", "n", "t", "\"", ":", " ", "\"",
           "a", "\"", "}", "]">> >>,
      \* set x = [1,
      << <<"s", "e", "t", " ", "x", " ", "=", " ", "[", "1", ",">> >>,
      \* print "true"
      << <<"p", "r", "i", "n", "t", " ", "\"", "t", "r", "u", "e", "\"">> >>,
      \* print -12
      << <<"p", "r", "i", "n", "t", " ", "-", "1", "2">> >>,
      \* call echo text=[] n='"12"' flag=False into x
      << <<"c", "a", "l", "l", " ", "e", "c", "h", "o", " ", "t", "e", "x", "t", "=",
           "[", "]", " ", "n", "=", "'", "\"", "1", "2", "\"", "'", " ", "f", "l", "a",
           "g", "=", "F", "a", "l", "s", "e", " ", "i", "n", "t", "o", " ", "x">> >>,
      \* generate out from prompt temperature=0.3 format=json schema="a b"
      << <<"g", "e", "n", "e", "r", "a", "t", "e", " ", "o", "u", "t", " ", "f", "r",
           "o", "m", " ", "p", "r", "o", "m", "p", "t", " ", "t", "e", "m", "p", "e",
           "r", "a", "t", "u", "r", "e", "=", "0", ".", "3", " ", "f", "o", "r", "m",
           "a", "t", "=", "j", "s", "o", "n", " ", "s", "c", "h", "e", "m", "a", "=",
           "\"", "a", " ", "b", "\"">> >> }

\* generate lines: options left out, given, repeated, unsupported and malformed
PiecesOptions ==
    {
      \* # note
      << <<"#", " ", "n", "o", "t", "e">> >>,
      \* model "demo"
      << <<"m", "o", "d", "e", "l", " ", "\"", "d", "e", "m", "o", "\"">> >>,
      \* template g = "Hello {topic}!"
      << <<"t", "e", "m", "p", "l", "a", "t", "e", " ", "g", " ", "=", " ", "\"", "H",
           "e", "l", "l", "o", " ", "{", "t", "o", "p", "i", "c", "}", "!", "\"">> >>,
      \* message user "Hi {topic}"
      << <<"m", "e", "s", "s", "a", "g", "e", " ", "u", "s", "e", "r", " ", "\"", "H",
           "i", " ", "{", "t", "o", "p", "i", "c", "}", "\"">> >>,
      \* bogus line
      << <<"b", "o", "g", "u", "s", " ", "l", "i", "n", "e">> >>,
      \* prompt """
      \* Write about {topic}.
      \* """
      << <<"p", "r", "o", "m", "p", "t", " ", "\"", "\"", "\"">>,
         <<"W", "r", "i", "t", "e", " ", "a", "b", "o", "u", "t", " ", "{", "t", "o",
           "p", "i", "c", "}", ".">>,
         <<"\"", "\"", "\"">> >>,
      \* set topic = agents
      << <<"s", "e", "t", " ", "t", "o", "p", "i", "c", " ", "=", " ", "a", "g", "e",
           "n", "t", "s">> >>,
      \* print x
      << <<"p", "r", "i", "n", "t", " ", "x">> >>,
      \* call echo text="hi" into x
      << <<"c", "a", "l", "l", " ", "e", "c", "h", "o", " ", "t", "e", "x", "t", "=",
           "\"", "h", "i", "\"", " ", "i", "n", "t", "o", " ", "x">> >>,
      \* generate out from prompt
      << <<"g", "e", "n", "e", "r", "a", "t", "e", " ", "o", "u", "t", " ", "f", "r",
           "o", "m", " ", "p", "r", "o", "m", "p", "t">> >>,
      \* generate out from prompt temperature=0.3 temperature=0.9 max_tokens=10
      << <<"g", "e", "n", "e", "r", "a", "t", "e", " ", "o", "u", "t", " ", "f", "r",
           "o", "m", " ", "p", "r", "o", "m", "p", "t", " ", "t", "e", "m", "p", "e",
           "r", "a", "t", "u", "r", "e", "=", "0", ".", "3", " ", "t", "e", "m", "p",
           "e", "r", "a", "t", "u", "r", "e", "=", "0", ".", "9", " ", "m", "a", "x",
           "_", "t", "o", "k", "e", "n", "s", "=", "1", "0">> >>,
      \* generate out from prompt format=json schema="a b"
      << <<"g", "e", "n", "e", "r", "a", "t", "e", " ", "o", "u", "t", " ", "f", "r",
           "o", "m", " ", "p", "r", "o", "m", "p", "t", " ", "f", "o", "r", "m", "a",
           "t", "=", "j", "s", "o", "n", " ", "s", "c", "h", "e", "m", "a", "=", "\"",
           "a", " ", "b", "\"">> >>,
      \* generate out from prompt max_tokens=5 foo=1 bar=2
      << <<"g", "e", "n", "e", "r", "a", "t", "e", " ", "o", "u", "t", " ", "f", "r",
           "o", "m", " ", "p", "r", "o", "m", "p", "t", " ", "m", "a", "x", "_", "t",
           "o", "k", "e", "n", "s", "=", "5", " ", "f", "o", "o", "=", "1", " ", "b",
           "a", "r", "=", "2">> >>,
      \* generate out from prompt temperature=1 9x=1 foo=2
      << <<"g", "e", "n", "e", "r", "a", "t", "e", " ", "o", "u", "t", " ", "f", "r",
           "o", "m", " ", "p", "r", "o", "m", "p", "t", " ", "t", "e", "m", "p", "e",
           "r", "a", "t", "u", "r", "e", "=", "1", " ", "9", "x", "=", "1", " ", "f",
           "o", "o", "=", "2">> >> }

\* source.splitlines() of the pieces in turn
RECURSIVE splitlines(_)
splitlines(pieces) ==
    IF pieces = <<>> THEN <<>> ELSE Head(pieces) \o splitlines(Tail(pieces))

\* parse_script(source) has been entered with a source of at most MaxLen pieces;
\* no script has been handed to a Runtime
InitParseWith(pieces) ==
    /\ \E n \in 0..MaxLen : \E source \in [1..n -> pieces] : lines = splitlines(source)
    /\ index = 0
    /\ statements = <<>>
    /\ outcome = Parsing
    /\ stmts = <<>>
    /\ parsed = <<>>
    /\ provider = "flat"
    /\ runNo = 1
    /\ pc = 1
    /\ status = "running"
    /\ err = "none"
    /\ variables = <<>>
    /\ model = DefaultModel
    /\ output = <<>>
    /\ calls = <<>>
    /\ results = <<>>

InitParse == InitParseWith(PiecesParse)

InitBlock == InitParseWith(PiecesBlock)

InitLiteral == InitParseWith(PiecesLiteral)

InitOptions == InitParseWith(PiecesOptions)

SpecParse == InitParse /\ [][NextParse]_vars

SpecBlock == InitBlock /\ [][NextParse]_vars

SpecLiteral == InitLiteral /\ [][NextParse]_vars

SpecOptions == InitOptions /\ [][NextParse]_vars

\* ---- vocabulary of the properties ----
\* a step taken by a statement handler of the current run
StatementStep == status = "running" /\ pc <= Len(stmts) /\ runNo' = runNo

Succeeds == status' = "running" /\ pc' = pc + 1
Fails == status' = "failed"

\* the name is bound before and after to different values, or bound on one side only
BindingChanged(name) ==
    \/ (name \in DOMAIN variables) # (name \in DOMAIN variables')
    \/ /\ name \in DOMAIN variables
       /\ name \in DOMAIN variables'
       /\ variables[name] # variables'[name]

IsSet(st, name) == st.kind = "set" /\ st.data.name = name

\* ---- C1 ----
\* C1: in every reachable state `messages` is unbound or bound to a list,
\* whatever statements ran (Generate and Call targeting `messages` included).
C1_MessagesUnboundOrList ==
    Bound("messages") => isinstance_list(variables["messages"])

\* ---- C2 ----
\* C2: every step that changes the binding of `prompt` is a Prompt statement,
\* and every step that changes the binding of `messages` is a Message
\* statement or a Set carrying a list.
C2_ReservedWrittenOnlyByDedicated ==
    [][StatementStep =>
         /\ BindingChanged("prompt") => stmts[pc].kind = "prompt"
         /\ BindingChanged("messages") =>
                \/ stmts[pc].kind = "message"
                \/ IsSet(stmts[pc], "messages") /\ isinstance_list(stmts[pc].data.value)
      ]_vars

\* ---- C3 ----
\* the statements C3 says are rejected
RejectedReserved(st) ==
    \/ IsSet(st, "prompt")
    \/ IsSet(st, "messages") /\ ~isinstance_list(st.data.value)
    \/ st.kind = "template" /\ st.data.name \in {"prompt", "messages"}

\* C3: Set to `prompt` (any value), Set to `messages` with a non-list and
\* Template to `prompt` or `messages` fail, and the failing step leaves the
\* variables, the model and the output log as they were.
C3_ReservedRejectedUnchanged ==
    [][(StatementStep /\ RejectedReserved(stmts[pc])) =>
         (Fails /\ UNCHANGED <<variables, model, output, stmts>>)]_vars

\* a rejected statement has just failed in an environment earlier statements filled
C3_Witness ==
    /\ status = "failed"
    /\ RejectedReserved(stmts[pc])
    /\ stmts[pc].kind = "template"
    /\ DOMAIN variables # {}
    /\ output # <<>>

\* ---- C4 ----
SeedsList(st) == IsSet(st, "messages") /\ isinstance_list(st.data.value)

C5_AbortNoRollback ==
    [][(runNo' = runNo) =>
         /\ (err' # "none") => UNCHANGED <<variables, model, output, stmts>>
         /\ (err # "none") => UNCHANGED <<calls, pc, err>>
      ]_vars

\* a run failed at a statement that has predecessors and successors
C5_Witness ==
    /\ status = "failed"
    /\ err # "none"
    /\ 1 < pc
    /\ pc < Len(stmts)
    /\ DOMAIN variables # {}

\* ---- C6 ----
Substitutes(st) == st.kind \in {"template", "prompt", "message"}

\* some placeholder of the text names no variable
RefersUnbound(st) ==
    \E i \in 1..Len(st.data.value.segs) :
        /\ st.data.value.segs[i].k = "var"
        /\ st.data.value.segs[i].s \notin DOMAIN variables

\* the text with each placeholder replaced by the string form of its variable
RECURSIVE Substituted(_)
Substituted(segs) ==
    IF segs = <<>> THEN ""
    ELSE (IF Head(segs).k = "var" THEN Str(variables[Head(segs).s]) ELSE Head(segs).s)
         \o Substituted(Tail(segs))

\* what a successful step of the statement stored is the substituted text
StoredSubstituted(st) ==
    LET text == Substituted(st.data.value.segs)
        after == ItemsIn(stmts', variables'["messages"])
    IN  CASE st.kind = "template" -> variables'[st.data.name] = StrV(text)
          [] st.kind = "prompt" -> variables'["prompt"] = StrV(text)
          [] st.kind = "message" ->
                after[Len(after)] = [role |-> st.data.role, content |-> text]

UnknownVariableError(e) ==
    e \in {"Unknown variable: " \o n : n \in {"topic", "g", "x", "out", "prompt", "messages"}}

SubstitutionContract(st) ==
    IF RefersUnbound(st)
    THEN /\ Fails
         /\ UnknownVariableError(err')
         /\ UNCHANGED <<variables, model, output, stmts>>
    ELSE Succeeds => StoredSubstituted(st)

\* C6 as stated: every Template, Prompt or Message whose text has an unbound
\* placeholder fails with the unknown-variable error and changes nothing;
\* with all placeholders bound the stored string is the substituted text.
C6_SubstitutionAllTemplates ==
    [][(StatementStep /\ Substitutes(stmts[pc])) => SubstitutionContract(stmts[pc])]_vars

\* C6 amended: the same for every Prompt, every Message and every Template
\* whose target is not reserved; a Template whose target is `prompt` or
\* `messages` fails with the reserved-name error, whatever its placeholders,
\* and changes nothing either.
C6_SubstitutionAssignable ==
    [][(StatementStep /\ Substitutes(stmts[pc])) =>
         IF stmts[pc].kind = "template" /\ stmts[pc].data.name \in RESERVED_VARIABLES
         THEN Fails /\ err' = "reserved" /\ UNCHANGED <<variables, model, output, stmts>>
         ELSE SubstitutionContract(stmts[pc])]_vars

\* a Template has just failed on an unbound placeholder, its target still
\* unbound, in an environment that holds other variables
C6_Witness ==
    /\ status = "failed"
    /\ stmts[pc].kind = "template"
    /\ UnknownVariableError(err)
    /\ stmts[pc].data.name \notin DOMAIN variables
    /\ DOMAIN variables # {}

\* ---- C7 ----
\* the value the script has given `topic` before statement j (NoneV: none)
RECURSIVE TopicBefore(_)
TopicBefore(j) ==
    IF j <= 1 THEN NoneV
    ELSE IF IsSet(parsed[j - 1], "topic") THEN parsed[j - 1].data.value
    ELSE TopicBefore(j - 1)

\* the text of message statement j, `topic` being the only placeholder in use
RECURSIVE ContentWith(_, _)
ContentWith(segs, topic) ==
    IF segs = <<>> THEN ""
    ELSE (IF Head(segs).k = "var" THEN Str(topic) ELSE Head(segs).s)
         \o ContentWith(Tail(segs), topic)

\* the {role, content} entries of the Message statements among the first k
\* statements, in script order
RECURSIVE ExpectedMessages(_)
ExpectedMessages(k) ==
    IF k = 0 THEN <<>>
    ELSE IF parsed[k].kind = "message"
    THEN Append(ExpectedMessages(k - 1),
                [role |-> parsed[k].data.role,
                 content |-> ContentWith(parsed[k].data.value.segs, TopicBefore(k))])
    ELSE ExpectedMessages(k - 1)

\* none of the first k statements writes `messages` other than by Message
OnlyMessagesWrote(k) ==
    \A j \in 1..k :
        /\ ~IsSet(parsed[j], "messages")
        /\ parsed[j].kind \in {"generate", "call"} => parsed[j].data.target # "messages"

\* C7: after the Message statements executed so far in a run that started
\* with `messages` unbound, `messages` holds exactly their {role, content}
\* entries in execution order, and a Generate from `messages` against a
\* provider with the chat operation hands that operation this sequence.
C7_MessagesAccumulateInOrder ==
    /\ [](OnlyMessagesWrote(pc - 1) =>
            IF ExpectedMessages(pc - 1) = <<>>
            THEN ~Bound("messages")
            ELSE /\ Bound("messages")
                 /\ isinstance_list(variables["messages"])
                 /\ Items(variables["messages"]) = ExpectedMessages(pc - 1))
    /\ [][(/\ StatementStep
           /\ stmts[pc].kind = "generate"
           /\ stmts[pc].data.prompt = "messages"
           /\ OnlyMessagesWrote(pc - 1)
           /\ ExpectedMessages(pc - 1) # <<>>
           /\ hasattr_generate_messages(provider)
           /\ Succeeds) =>
            /\ Len(calls') = Len(calls) + 1
            /\ calls'[Len(calls')].op = "generate_messages"
            /\ calls'[Len(calls')].messages = ExpectedMessages(pc - 1)
            /\ SubSeq(calls', 1, Len(calls)) = calls
         ]_vars

\* system then user then generate from messages: the chat operation got both,
\* the user message last
C7_Witness ==
    /\ pc = 4
    /\ stmts[1].kind = "message"
    /\ stmts[2].kind = "message"
    /\ stmts[3].kind = "generate"
    /\ calls # <<>>
    /\ calls[1].op = "generate_messages"
    /\ Len(calls[1].messages) = 2
    /\ calls[1].messages[1].role = "system"
    /\ calls[1].messages[2].role = "user"

\* ---- C8 ----
WantsJson(st) == st.data.format = StrV("json") \/ st.data.schema # NoneV

\* C8: a Generate with format json or a schema binds the target to the
\* decoded document when the returned text decodes and fails, the variables
\* untouched, when it does not; a Generate with neither binds the target to
\* the returned text.
C8_JsonDecodedOrFails ==
    [][(/\ StatementStep
        /\ stmts[pc].kind = "generate"
        /\ Len(calls') = Len(calls) + 1) =>
         LET returned == calls'[Len(calls')].returned
             target == stmts[pc].data.target
         IN  IF WantsJson(stmts[pc])
             THEN IF json_loads(returned).ok
                  THEN /\ Succeeds
                       /\ variables'[target] = json_loads(returned).value
                  ELSE /\ Fails
                       /\ err' = "Generated output is not valid JSON"
                       /\ UNCHANGED variables
             ELSE /\ Succeeds
                  /\ variables'[target] = StrV(returned)
      ]_vars

\* ---- C9 ----
\* variables with every list replaced by its items
View(vs) == [n \in DOMAIN vs |-> IF vs[n].t = "list" THEN Items(vs[n]) ELSE vs[n]]

\* C9: a second run of the same statement sequence on a fresh Runtime ends
\* with the output log and the variables of the first run.
C9_RerunIdentical ==
    (runNo >= 2 /\ status # "running") =>
        /\ output = results[1].output
        /\ View(variables) = View(results[1].variables)

\* ---- C10 ----
\* C10: executing statements leaves every statement's payload as the parser
\* produced it.
C10_StatementsImmutable == stmts = parsed

\* ---- C11 ----
\* what the statement's value stands for: the variable it names, else itself
Printed(st) ==
    IF st.data.value.t = "str" /\ st.data.value.s \in DOMAIN variables
    THEN variables[st.data.value.s]
    ELSE st.data.value

\* C11: a Print statement always succeeds and appends exactly one entry, the
\* string form of the variable's current value when its value is a string
\* naming a bound variable and the string form of its own value otherwise,
\* changing nothing else; `set x = "a"` then `print x` ends with output <<"a">>.
C11_PrintResolution ==
    /\ [][(StatementStep /\ stmts[pc].kind = "print") =>
            /\ Succeeds
            /\ output' = Append(output, Str(Printed(stmts[pc])))
            /\ UNCHANGED <<variables, model, stmts, calls>>]_vars
    /\ []((/\ status = "done"
           /\ parsed = <<StmtSet("x", StrV("a")), StmtPrint(StrV("x"))>>) =>
            output = <<"a">>)

\* set x = "a" / print x / print 1.5 has run: the variable's value, then the
\* literal's string form
C11_Witness ==
    /\ status = "done"
    /\ parsed = <<StmtSet("x", StrV("a")), StmtPrint(StrV("x")), StmtPrint(FloatV(15))>>
    /\ output = <<"a", "1.5">>

\* ---- C15 ----
\* C15: a Call of a tool outside the registry fails, no tool invoked, the
\* variables as they were; a Call of a registered tool invokes it exactly once
\* with the statement's args and binds the target to what it returned (echo
\* returns its text), or, when the tool raises (boom), fails with the tool's
\* own error and leaves the variables as they were.
C15_CallSemantics ==
    [][(StatementStep /\ stmts[pc].kind = "call") =>
         LET st == stmts[pc]
             target == st.data.target
         IN  IF st.data.tool \notin Tools
             THEN /\ Fails
                  /\ err' = "Unknown tool"
                  /\ calls' = calls
                  /\ UNCHANGED variables
             ELSE /\ calls' = Append(calls, [op |-> "tool", tool |-> st.data.tool,
                                             args |-> st.data.args])
                  /\ IF st.data.tool = "boom"
                     THEN /\ Fails
                          /\ err' = "tool raised"
                          /\ UNCHANGED variables
                     ELSE /\ Succeeds
                          /\ DOMAIN variables' = DOMAIN variables \cup {target}
                          /\ variables'[target] = st.data.args.text
                          /\ \A n \in DOMAIN variables \ {target} :
                                 variables'[n] = variables[n]
      ]_vars

\* echo bound x, then boom raised: its error is the run's, x is what echo returned
C15_Witness ==
    /\ status = "failed"
    /\ pc = 2
    /\ stmts[1] = StmtCall("echo", [text |-> StrV("hi")], "x")
    /\ stmts[2].kind = "call"
    /\ stmts[2].data.tool = "boom"
    /\ err = "tool raised"
    /\ variables = [x |-> StrV("hi")]
    /\ Len(calls) = 2

\* ---- C17 ----
\* the texts the flat operation may be handed for a value: its string form,
\* or the flattened messages, with the format or schema instruction appended
FlatTexts(st, value) ==
    LET base == IF isinstance_list(value)
                THEN format_messages(Items(value))
                ELSE Str(value)
    IN  {base, base \o "\n\nReturn valid JSON."}
        \cup (IF st.data.schema = NoneV THEN {}
              ELSE {base \o "\n\nReturn JSON matching this schema:\n" \o Str(st.data.schema)})

\* C17: a successful Generate makes exactly one provider invocation; it is the
\* chat operation, given the current model and the message list as it is,
\* whenever the prompt variable holds a list (the empty list included) and
\* the provider has the chat operation, and the flat operation, given the
\* string form of the value or the flattened messages, in every other case.
C17_GenerateRouting ==
    [][(StatementStep /\ stmts[pc].kind = "generate" /\ Succeeds) =>
         LET st == stmts[pc]
             value == variables[st.data.prompt]
             call == calls'[Len(calls')]
         IN  /\ Len(calls') = Len(calls) + 1
             /\ SubSeq(calls', 1, Len(calls)) = calls
             /\ call.model = model
             /\ IF isinstance_list(value) /\ hasattr_generate_messages(provider)
                THEN /\ call.op = "generate_messages"
                     /\ call.messages = Items(value)
                ELSE /\ call.op = "generate"
                     /\ call.prompt \in FlatTexts(st, value)
      ]_vars

\* ---- C18 ----
\* the option values that denote a number
Numeric(v) == v.t \in {"int", "float", "bool"} \/ v = StrV("1e1")

PreCheckFails(st) ==
    \/ st.data.prompt \notin DOMAIN variables
    \/ ~Numeric(st.data.temperature)
    \/ ~Numeric(st.data.max_tokens)
    \/ to_float(st.data.temperature).n < 0
    \/ to_int(st.data.max_tokens).n <= 0

\* C18: a Generate whose prompt variable is unbound, or whose temperature or
\* max_tokens is not numeric, or with temperature < 0 or max_tokens <= 0,
\* fails without a provider invocation and leaves variables, model and
\* output as they were; so every provider invocation has temperature >= 0
\* and max_tokens > 0.
C18_PreChecksGuardProvider ==
    /\ [][(StatementStep /\ stmts[pc].kind = "generate" /\ PreCheckFails(stmts[pc])) =>
            /\ Fails
            /\ calls' = calls
            /\ UNCHANGED <<variables, model, output>>]_vars
    /\ [](\A i \in 1..Len(calls) :
            calls[i].op \in {"generate", "generate_messages"} =>
                /\ ~calls[i].nan
                /\ calls[i].temperature >= 0
                /\ calls[i].max_tokens > 0)

\* ---- C20 ----
\* the Print statements among the first k statements
PrintsBefore(k) == Cardinality({j \in 1..k : parsed[j].kind = "print"})

\* C20: within a run the output log only grows at its end: a Print step
\* appends one entry after the existing ones, every other step, failing ones
\* included, leaves the log as it is, and the log is as long as the number of
\* Print statements executed so far.
C20_OutputAppendOnly ==
    /\ [][StatementStep =>
            IF stmts[pc].kind = "print" /\ Succeeds
            THEN /\ Len(output') = Len(output) + 1
                 /\ SubSeq(output', 1, Len(output)) = output
            ELSE output' = output]_vars
    /\ [](Len(output) = PrintsBefore(pc - 1))

\* two different entries were printed, then a statement failed: both are kept
C20_Witness ==
    /\ status = "failed"
    /\ pc = 3
    /\ Len(output) = 2
    /\ output[1] # output[2]

\* ---- parse_script ----
\* parse_script was left by an exception
ParseFailed == outcome.status = "raised"

\* C12: whenever parse fails, what it raises is a ParseError that carries the
\* 1-based number of the offending line, the line the scan stands on: no parse
\* failure surfaces as another kind of error or without a line number.
C12_ParseFailureIsLocatedParseError ==
    ParseFailed =>
        /\ outcome.error.kind = "ParseError"
        /\ outcome.error.line = index + 1

\* a line that consists solely of three double quotes, padded or not
IsTerminator(l) == strip(l) = <<Quote, Quote, Quote>>

\* the scan stands on a line that opens a prompt block
AtOpener == outcome = Parsing /\ index < Len(lines) /\ PROMPT_START_RE(line)

\* the lines after the opener that could close its block, counted from 1
Closers == {j \in (index + 2)..Len(lines) : IsTerminator(lines[j])}

\* C13: when the input ends inside a prompt block (no line after the opener
\* consists solely of the closing quotes), parse fails with a ParseError
\* reported at the 1-based number of the opening line, and once parse has
\* failed no statement sequence is returned, the statements recognized before
\* the opener included.
C13_UnterminatedBlockFailsAtOpener ==
    [][/\ AtOpener /\ Closers = {} =>
            /\ outcome' = Raised("ParseError", index + 1, "Unterminated prompt block")
            /\ statements' = statements
       /\ ParseFailed => outcome'.status = "raised"]_vars

\* a statement was recognized on line 1, the block opened on line 2 never
\* closes: the failure names line 2 and nothing is returned
C13_Witness ==
    /\ outcome = Raised("ParseError", 2, "Unterminated prompt block")
    /\ Len(statements) = 1
    /\ Len(lines) > 2

\* C19: from a recognized opener to the first later closing line the lines
\* are collected verbatim, none of them read as a statement, a comment or a
\* blank to skip: the block yields exactly one Prompt statement whose value is
\* those lines joined by newline in source order, and recognition resumes at
\* the line right after the closing line.
C19_PromptBlockScanning ==
    [][AtOpener /\ Closers # {} =>
          LET closer == CHOOSE j \in Closers : \A k \in Closers : j <= k
              text == join_lines(SubSeq(lines, index + 2, closer - 1))
          IN  /\ statements' = Append(statements, StmtPrompt(Text(fields(text))))
              /\ index' = closer
              /\ outcome' = Parsing]_vars

\* a block holding a statement line, a comment, an empty line and a padded
\* line became one Prompt with all four, and a later line was recognized
C19_Witness ==
    /\ outcome.status = "returned"
    /\ \E i \in 1..(Len(statements) - 1) :
          /\ statements[i] = StmtPrompt(Text(<<Lit("set x = 1\n# text\n\n  indented ")>>))
          /\ statements[i + 1].kind # "prompt"

\* ---- literals and options ----
\* a step that recognized a statement, and the statement
Recognized == Len(statements') > Len(statements)
Newest == statements'[Len(statements')]

\* the key a token assigns to
KeyOf(token) == str_of(ASSIGN_RE(token).name)

\* the right-hand side the tokens give the key: that of the last token that
\* assigns to it
Supplied(tokens, key) ==
    LET hits == {i \in 1..Len(tokens) : ASSIGN_RE(tokens[i]).ok /\ KeyOf(tokens[i]) = key}
        last == CHOOSE i \in hits : \A k \in hits : k <= i
    IN  IF hits = {} THEN [given |-> FALSE, value |-> <<>>]
        ELSE [given |-> TRUE, value |-> ASSIGN_RE(tokens[last]).value]

\* The stated coercion of a right-hand-side token: quoted, then boolean,
\* integer, float, then JSON for set only, else a plain string.
Reference(raw, for_set) ==
    LET token == strip(raw)
        bracketed == \/ startswith(token, <<"{">>) /\ endswith(token, <<"}">>)
                     \/ startswith(token, <<"[">>) /\ endswith(token, <<"]">>)
    IN  IF startswith(token, <<Quote>>) /\ endswith(token, <<Quote>>)
        THEN StrV(str_of(SubSeq(token, 2, Len(token) - 1)))
        ELSE IF lower(token) = True THEN BoolV(TRUE)
        ELSE IF lower(token) = False THEN BoolV(FALSE)
        ELSE IF fullmatch_int(token) THEN IntV(int_of(token))
        ELSE IF fullmatch_float(token) THEN FloatV(float_of(token))
        ELSE IF for_set /\ bracketed /\ json_loads(str_of(token)).ok
        THEN json_loads(str_of(token)).value
        ELSE StrV(str_of(token))

OptionKeys == {"temperature", "max_tokens", "format", "schema"}

\* the stated defaults of the options
StatedDefault(key) ==
    CASE key = "temperature" -> FloatV(7)
      [] key = "max_tokens" -> IntV(128)
      [] OTHER -> NoneV

CoercedAsStated(st) ==
    CASE st.kind = "set" ->
            st.data.value = Reference(ASSIGN_RE(SET_RE(line).rest).value, TRUE)
      [] st.kind = "print" -> st.data.value = Reference(PRINT_RE(line).value, FALSE)
      [] st.kind = "call" ->
            LET tokens == shlex_split(CALL_RE(line).args).tokens
            IN  /\ DOMAIN st.data.args = {KeyOf(tokens[i]) : i \in 1..Len(tokens)}
                /\ \A key \in DOMAIN st.data.args :
                      st.data.args[key] = Reference(Supplied(tokens, key).value, FALSE)
      [] st.kind = "generate" ->
            LET tokens == shlex_split(strip(GENERATE_RE(line).rest)).tokens
            IN  \A key \in OptionKeys :
                    Supplied(tokens, key).given =>
                        st.data[key] = Reference(Supplied(tokens, key).value, FALSE)
      [] OTHER -> TRUE

\* C16: every right-hand-side token of a set, print, call or generate line
\* becomes the value the stated order gives: a token in double quotes the
\* string between them, else true/false in any case a boolean, -?digits an
\* integer, -?digits.digits a float, for set only a bracketed token that
\* decodes as JSON the decoded value, and everything else a plain string.
C16_CoercionOrder ==
    [][Recognized => CoercedAsStated(Newest)]_vars

\* quoted "12" and quoted "true" stayed strings, and a bracketed token and a
\* quoted number in a call stayed strings next to a boolean
C16_Witness ==
    /\ outcome.status = "returned"
    /\ statements =
          << StmtSet("x", StrV("12")),
             StmtPrint(StrV("true")),
             StmtCall("echo", [text |-> StrV("[]"), n |-> StrV("12"), flag |-> BoolV(FALSE)], "x") >>

\* ---- the model in effect ----
\* the name given by the last Model statement among the first k statements of
\* the script, default-model when there is none
RECURSIVE NamedBefore(_)
NamedBefore(k) ==
    IF k = 0 THEN "default-model"
    ELSE IF stmts[k].kind = "model" THEN stmts[k].data.name
    ELSE NamedBefore(k - 1)

\* C21: a Model statement never fails and changes only the model, leaving
\* variables (the values earlier Generate statements stored among them) and
\* the output log as they are; every provider invocation a Generate statement
\* makes receives the name of the most recent Model statement executed before
\* it, or default-model when none has been executed.
C21_ModelInEffect ==
    [][StatementStep =>
          /\ stmts[pc].kind = "model" =>
                /\ Succeeds
                /\ model' = stmts[pc].data.name
                /\ variables' = variables
                /\ output' = output
                /\ calls' = calls
          /\ stmts[pc].kind = "generate" /\ calls' # calls =>
                /\ Len(calls') = Len(calls) + 1
                /\ SubSeq(calls', 1, Len(calls)) = calls
                /\ calls'[Len(calls')].model = NamedBefore(pc - 1)]_vars

\* a Generate that ran after a Model statement reached the provider with that
\* name instead of the default, and the Model statement that ran after it
\* left the stored text, which names the earlier model, alone
C21_Witness ==
    \E i \in 1..(Len(stmts) - 1) :
        /\ pc > i + 1
        /\ stmts[i].kind = "generate"
        /\ stmts[i + 1] = StmtModel("demo")
        /\ \E j \in 1..(i - 1) : stmts[j] = StmtModel("other")
        /\ calls # <<>>
        /\ calls[1].model = "other"
        /\ model = "demo"
        /\ provider = "flat"
        /\ variables["out"] = StrV("[other] user: Hi there.")
====
